---- MODULE Spec2Model ----
(***************************************************************************)
(* canto-next daemon: the tag registry (tag.py), the command dispatcher   *)
(* with its watch registry (canto_backend.py) and the shelf (storage.py). *)
(* Each handler of the daemon is one action; the collaborators that the   *)
(* repository keeps outside these three files (hooks, protect, feed,      *)
(* config) are modelled from their documented contract.                   *)
(***************************************************************************)
EXTENDS Integers, Sequences, FiniteSets, TLC

\* ---------------------------------------------------------------- bounds
NumIds == 2
MaxWatch == 4

Ids == 1..NumIds
TagNames == {"comics", "xkcd"}
AliasedTags == {"comics"}
Sockets == {"S1", "S2"}
Reasons == {"auto", "user"}
FeedNames == {"A", "B", "C"}
Sections == {"defaults", "feed"}
Settings == {"rate", "keep"}
Values == {"v1", "v2"}

\* ---------------------------------------------------------------- python lists
InList(x, s) == \E i \in 1..Len(s) : s[i] = x

ListSet(s) == {s[i] : i \in 1..Len(s)}

Count(x, s) == Cardinality({i \in 1..Len(s) : s[i] = x})

NoDup(s) == \A i, j \in 1..Len(s) : s[i] = s[j] => i = j

\* list.remove(x): drops the first occurrence only
RECURSIVE ListRemove(_, _)
ListRemove(s, x) ==
    IF s = <<>> THEN <<>>
    ELSE IF Head(s) = x THEN Tail(s)
    ELSE <<Head(s)>> \o ListRemove(Tail(s), x)

\* python dicts whose iteration order no handler depends on: functions
EmptyMap == [x \in {} |-> x]

Upd(f, k, v) == [x \in DOMAIN f \cup {k} |-> IF x = k THEN v ELSE f[x]]

Del(f, k) == [x \in DOMAIN f \ {k} |-> f[x]]

RECURSIVE SetToSeq(_)
SetToSeq(S) ==
    IF S = {} THEN <<>>
    ELSE LET x == CHOOSE y \in S : TRUE IN <<x>> \o SetToSeq(S \ {x})

RECURSIVE Flatten(_)
Flatten(ss) == IF ss = <<>> THEN <<>> ELSE Head(ss) \o Flatten(Tail(ss))

\* ---------------------------------------------------------------- state
VARIABLES
    tags,          \* alltags.tags: insertion-ordered dict, a list of [name, ids]
    changed_tags,  \* alltags.changed_tags
    extra_tags,    \* alltags.extra_tags: tag name -> list of extra tag names
    watches,       \* CantoBackend.watches: new_tags, del_tags, config, tags
    prot,          \* protection: (socket, reason) -> set of ids
    feeds,         \* allfeeds: the feeds of the present configuration
    dead_feeds,    \* allfeeds.dead_feeds
    conf,          \* CantoBackend.conf: section -> setting -> value
    conf_file,     \* the configuration store that conf.write() writes
    mutated,       \* history: per tag, mutations since the last flush (saturating)
    returned,      \* history: per socket, ids an ITEMS reply gave it and that it
                   \*   has neither named in an UNPROTECT nor dropped by disconnecting
    trace,         \* what the last handler published, wrote and synced, in order
    lastOp,        \* history: the last handler, with its arguments
    tag_transforms,\* alltags.tag_transforms: tag name -> transform
    queue,         \* CantoServer.queue: the commands read from the sockets
    pc,            \* where start() is: in run()'s loop, leaving it, exited
    alarmed,       \* CantoBackend.alarmed
    fetch_timer,   \* CantoBackend.fetch_timer
    shutdown,      \* history: what start() called after run(), in order
    loopOp,        \* history: what the last step of run() did
    sweep,         \* history: loop-triggered fetch sweeps and the alarmed
                   \*   iterations since the last one
    shelf,         \* CantoShelf.shelf: None, or the open shelve (cache and dbm)
    disk,          \* the backing file: what a flush has put on disk
    writeback,     \* CantoShelf.writeback
    feed_lock,     \* the feed-data lock: who holds it in write mode
    hist,          \* history: key -> value as the callers of the shelf left them
    flushed        \* history: the flushes of the last shelf operation, each with
                   \*   the holder of the feed-data write lock at that moment

tagvars == <<tags, changed_tags, extra_tags, mutated, tag_transforms>>
backvars == <<watches, prot, feeds, dead_feeds, conf, conf_file, returned>>
loopvars == <<queue, pc, alarmed, fetch_timer, shutdown, loopOp, sweep>>
shelfvars == <<shelf, disk, writeback, feed_lock, hist, flushed>>
othervars == <<loopvars, shelfvars>>
vars == <<tags, changed_tags, extra_tags, mutated, watches, prot, feeds, dead_feeds,
          conf, conf_file, returned, trace, lastOp, tag_transforms, loopvars, shelfvars>>

\* ---------------------------------------------------------------- trace entries
HookEv(name, arg) == [k |-> "hook", name |-> name, sock |-> "", arg |-> arg]

WriteEv(sock, cmd, arg) == [k |-> "write", name |-> cmd, sock |-> sock, arg |-> arg]

SyncEv == [k |-> "sync", name |-> "", sock |-> "", arg |-> ""]

ConfWriteEv == [k |-> "conf_write", name |-> "", sock |-> "", arg |-> ""]

NoOp == [op |-> "init", id |-> 0, tag |-> "", sock |-> "", n |-> 0, m |-> 0, arg |-> ""]

Op(name) == [NoOp EXCEPT !.op = name]

\* ---------------------------------------------------------------- hook bus
\* on_hook() appends, call_hook() calls in subscription order.  The tag module
\* subscribes when it is imported (its module-level instance), the shelf when the
\* daemon builds it in init(), the dispatcher in setup_hooks().
Subscribers(hook) ==
    CASE hook = "daemon_work_done" -> <<"do_tag_changes", "sync">>
      [] hook = "daemon_exit"      -> <<"close">>
      [] hook = "new_tag"          -> <<"on_new_tag">>
      [] hook = "del_tag"          -> <<"on_del_tag">>
      [] hook = "config_change"    -> <<"on_config_change">>
      [] hook = "tag_change"       -> <<"on_tag_change">>
      [] hook = "kill_socket"      -> <<"on_kill_socket">>
      [] OTHER                     -> <<>>

RECURSIVE Uniq(_)
Uniq(s) ==
    IF s = <<>> THEN <<>>
    ELSE IF InList(s[Len(s)], SubSeq(s, 1, Len(s) - 1))
    THEN Uniq(SubSeq(s, 1, Len(s) - 1))
    ELSE Append(Uniq(SubSeq(s, 1, Len(s) - 1)), s[Len(s)])

on_new_tag_dedup(w, tgs) ==
    [i \in 1..Len(Uniq(w.new_tags)) |-> WriteEv(Uniq(w.new_tags)[i], "NEWTAGS", tgs)]

\* on_new_tag, on_tag_change, on_del_tag: one write per entry of the watch list
on_new_tag(w, tgs) == [i \in 1..Len(w.new_tags) |-> WriteEv(w.new_tags[i], "NEWTAGS", tgs)]

on_tag_change(w, tag) ==
    IF tag \in DOMAIN w.tags
    THEN [i \in 1..Len(w.tags[tag]) |-> WriteEv(w.tags[tag][i], "TAGCHANGE", tag)]
    ELSE <<>>

on_del_tag(w, tgs) == [i \in 1..Len(w.del_tags) |-> WriteEv(w.del_tags[i], "DELTAGS", tgs)]

\* call_hook for the hooks whose subscribers only write to sockets: the
\* publication, then what each subscriber wrote, in subscription order
call_hook(hook, arg) ==
    LET subs == Subscribers(hook)
        run(sub) == CASE sub = "on_new_tag"    -> on_new_tag(watches, arg)
                      [] sub = "on_tag_change" -> on_tag_change(watches, arg)
                      [] sub = "on_del_tag"    -> on_del_tag(watches, arg)
                      [] OTHER                 -> <<>>
    IN <<HookEv(hook, arg)>> \o Flatten([i \in 1..Len(subs) |-> run(subs[i])])

\* ---------------------------------------------------------------- tag registry
TagKeys(tg) == [i \in 1..Len(tg) |-> tg[i].name]

HasTag(tg, name) == \E i \in 1..Len(tg) : tg[i].name = name

TagIdx(tg, name) == CHOOSE i \in 1..Len(tg) : tg[i].name = name

TagIds(tg, name) == tg[TagIdx(tg, name)].ids

SetTagIds(tg, name, ids) == [tg EXCEPT ![TagIdx(tg, name)].ids = ids]

get_tag(tg, name) == IF HasTag(tg, name) THEN TagIds(tg, name) ELSE <<>>

tag_changed_always(ch, tag) == Append(ch, tag)

tag_changed(ch, tag) == IF InList(tag, ch) THEN ch ELSE Append(ch, tag)

AllAdded_base_only(ex, name) == <<name>>

\* add_tag: alladded = [ name ] + extras
AllAdded(ex, name) ==
    <<name>> \o (IF name \in DOMAIN ex THEN ex[name] ELSE <<>>)

AddIsNew_always(ids, id) == TRUE

\* add_tag: "if id not in self.tags[name]"
AddIsNew(ids, id) == ~InList(id, ids)

TagMissing_or_empty(tg, name) ==
    \A i \in 1..Len(tg) : tg[i].name = name => tg[i].ids = <<>>

\* add_tag: "if name not in self.tags"
TagMissing(tg, name) == ~HasTag(tg, name)

RemoveHit_always(ids, id) == TRUE

\* remove_tag, remove_id: "id in self.tags[tag]"
RemoveHit(ids, id) == InList(id, ids)

\* add_tag's loop over alladded; r carries tags, changed_tags, the hook
\* publications and the names whose list changed
RECURSIVE AddLoop(_, _, _)
AddLoop(r, id, names) ==
    IF names = <<>> THEN r
    ELSE LET name == Head(names)
             fresh == TagMissing(r.tags, name)
             tg1 == IF fresh
                    THEN Append(r.tags, [name |-> name, ids |-> <<>>])
                    ELSE r.tags
             ev1 == IF fresh
                    THEN r.events \o call_hook("daemon_new_tag", <<name>>)
                    ELSE r.events
             new == AddIsNew(TagIds(tg1, name), id)
             r2 == IF new
                   THEN [tags |-> SetTagIds(tg1, name, Append(TagIds(tg1, name), id)),
                         changed |-> tag_changed(r.changed, name),
                         events |-> ev1,
                         touched |-> Append(r.touched, name)]
                   ELSE [r EXCEPT !.tags = tg1, !.events = ev1]
         IN AddLoop(r2, id, Tail(names))

\* remove_id's loop over the dict, in its iteration order
RECURSIVE RemoveLoop(_, _, _)
RemoveLoop(r, id, i) ==
    IF i > Len(r.tags) THEN r
    ELSE LET name == r.tags[i].name
             r2 == IF RemoveHit(r.tags[i].ids, id)
                   THEN [tags |-> [r.tags EXCEPT ![i].ids = ListRemove(@, id)],
                         changed |-> tag_changed(r.changed, name),
                         events |-> r.events,
                         touched |-> Append(r.touched, name)]
                   ELSE r
         IN RemoveLoop(r2, id, i + 1)

ResetLoop_skip(ch, tg, i) == ch

\* reset's loop: tag_changed for every tag of the dict
RECURSIVE ResetLoop(_, _, _)
ResetLoop(ch, tg, i) ==
    IF i > Len(tg) THEN ch ELSE ResetLoop(tag_changed(ch, tg[i].name), tg, i + 1)

\* do_tag_changes' loop: one publication per entry of changed_tags
do_tag_changes(ch) == Flatten([i \in 1..Len(ch) |-> call_hook("daemon_tag_change", ch[i])])

\* the subscribers of daemon_work_done, run in subscription order
RECURSIVE RunWorkDone(_, _)
RunWorkDone(subs, r) ==
    IF subs = <<>> THEN r
    ELSE LET r2 == CASE Head(subs) = "do_tag_changes" ->
                          [changed |-> <<>>, trace |-> r.trace \o do_tag_changes(r.changed)]
                     [] Head(subs) = "sync" ->
                          [r EXCEPT !.trace = Append(@, SyncEv)]
                     [] OTHER -> r
         IN RunWorkDone(Tail(subs), r2)

MaxOf(S) == IF S = {} THEN 0 ELSE CHOOSE x \in S : \A y \in S : y <= x

\* the history count of mutations: 0, 1, or 2 for "more than once"
Bump(m, touched) ==
    [t \in TagNames |-> IF m[t] + Count(t, touched) > 2 THEN 2 ELSE m[t] + Count(t, touched)]

Start == [tags |-> tags, changed |-> changed_tags, events |-> <<>>, touched |-> <<>>]

\* the extra-tag lists a configuration gives: none, one alias, the same alias
\* twice, the tag itself and an alias
ExtraLists == {<<>>, <<"xkcd">>, <<"xkcd", "xkcd">>, <<"comics", "xkcd">>}

\* ---------------------------------------------------------------- protection
ProtKey_per_reason(sock, reason) == <<"S1", reason>>

\* the key every handler builds: (socket, reason)
ProtKey(sock, reason) == <<sock, reason>>

protect(p, key, ids) == [p EXCEPT ![key] = @ \cup ids]

unprotect_socket(p, key) == [k \in DOMAIN p |-> IF k[1] = key[1] THEN {} ELSE p[k]]

unprotect(p, key) == [p EXCEPT ![key] = {}]

unprotect_one(p, key, id) == [p EXCEPT ![key] = @ \ {id}]

protected(p, id) == \E key \in DOMAIN p : id \in p[key]

\* ---------------------------------------------------------------- feeds
\* feed.items of each feed: A has no item, B has item 1, C has the others
FeedItems(f) ==
    CASE f = "A" -> <<>>
      [] f = "B" -> <<1>>
      [] OTHER   -> [i \in 1..(NumIds - 1) |-> i + 1]

really_dead(dead, f) == dead \ {f}

FeedCommitted_all(f, p) ==
    \A i \in 1..Len(FeedItems(f)) : protected(p, FeedItems(f)[i])

\* check_dead_feeds' inner loop: break at the first protected item
FeedCommitted(f, p) ==
    \E i \in 1..Len(FeedItems(f)) : protected(p, FeedItems(f)[i])

RECURSIVE DeadLoop(_, _, _)
DeadLoop(urls, dead, p) ==
    IF urls = <<>> THEN dead
    ELSE DeadLoop(Tail(urls),
                  IF FeedCommitted(Head(urls), p) THEN dead ELSE really_dead(dead, Head(urls)),
                  p)

check_dead_feeds(dead, p) == DeadLoop(SetToSeq(dead), dead, p)

\* ---------------------------------------------------------------- watches
RemoveAll_once(s, x) == ListRemove(s, x)

\* "while socket in l: l.remove(socket)"
RECURSIVE RemoveAll(_, _)
RemoveAll(s, x) == IF InList(x, s) THEN RemoveAll(ListRemove(s, x), x) ELSE s

KillWatches(w, sock) ==
    [config   |-> RemoveAll(w.config, sock),
     new_tags |-> RemoveAll(w.new_tags, sock),
     del_tags |-> RemoveAll(w.del_tags, sock),
     tags     |-> [t \in DOMAIN w.tags |-> RemoveAll(w.tags[t], sock)]]

WatchLists(w) == <<w.config, w.new_tags, w.del_tags>> \o
                 [i \in 1..Len(SetToSeq(DOMAIN w.tags)) |-> w.tags[SetToSeq(DOMAIN w.tags)[i]]]

RECURSIVE SumLen(_)
SumLen(ls) == IF ls = <<>> THEN 0 ELSE Len(Head(ls)) + SumLen(Tail(ls))

WatchTotal(w) == SumLen(WatchLists(w))

RECURSIVE WatchTagsLoop(_, _, _)
WatchTagsLoop(wt, sock, args) ==
    IF args = <<>> THEN wt
    ELSE LET tag == Head(args)
         IN WatchTagsLoop(IF tag \in DOMAIN wt
                          THEN Upd(wt, tag, Append(wt[tag], sock))
                          ELSE Upd(wt, tag, <<sock>>),
                          sock, Tail(args))

WatchArgs == UNION {[1..n -> TagNames] : n \in 1..2}

\* ---------------------------------------------------------------- ITEMS, PROTECT, UNPROTECT
RECURSIVE Keep(_, _)
Keep(s, S) ==
    IF s = <<>> THEN <<>>
    ELSE (IF Head(s) \in S THEN <<Head(s)>> ELSE <<>>) \o Keep(Tail(s), S)

\* conf.global_transform: a filter of the tag's list, or none (keep = Ids)
apply_transforms(list, keep) == Keep(list, keep)

RECURSIVE ItemsLoop(_, _, _, _)
ItemsLoop(r, sock, args, keep) ==
    IF args = <<>> THEN r
    ELSE LET tag == Head(args)
             list == apply_transforms(get_tag(tags, tag), keep)
         IN ItemsLoop([response |-> Upd(r.response, tag, list),
                       prot |-> protect(r.prot, ProtKey(sock, "auto"), ListSet(list))],
                      sock, Tail(args), keep)

ItemArgs == UNION {[1..n -> TagNames] : n \in 1..2}

RECURSIVE ProtectLoop(_, _, _, _)
ProtectLoop(p, sock, args, reasons) ==
    IF reasons = <<>> THEN p
    ELSE ProtectLoop(protect(p, ProtKey(sock, Head(reasons)), args[Head(reasons)]),
                     sock, args, Tail(reasons))

RECURSIVE UnprotectIds(_, _, _)
UnprotectIds(p, key, ids) ==
    IF ids = <<>> THEN p
    ELSE UnprotectIds(unprotect_one(p, key, Head(ids)), key, Tail(ids))

RECURSIVE UnprotectLoop(_, _, _, _)
UnprotectLoop(p, sock, args, reasons) ==
    IF reasons = <<>> THEN p
    ELSE UnprotectLoop(UnprotectIds(p, ProtKey(sock, Head(reasons)),
                                    SetToSeq(args[Head(reasons)])),
                       sock, args, Tail(reasons))

\* { reason : [ id, ... ] } requests
ProtArgs == UNION {[R -> (SUBSET Ids) \ {{}}] : R \in (SUBSET Reasons) \ {{}}}

\* requests naming one reason and one id, or one reason and every id
ProtArgs1 == {a \in ProtArgs : /\ Cardinality(DOMAIN a) = 1
                                /\ \A r \in DOMAIN a : Cardinality(a[r]) \in {1, NumIds}}

\* the global transforms tried: none, and a filter that keeps item 1
Filters == {Ids, {1}}

Named(args) == UNION {args[r] : r \in DOMAIN args}

\* ---------------------------------------------------------------- configuration
has_section(cf, section) == section \in DOMAIN cf

remove_section(cf, section) == Del(cf, section)

conf_set(cf, section, setting, value) ==
    Upd(cf, section, Upd(IF section \in DOMAIN cf THEN cf[section] ELSE EmptyMap,
                         setting, value))

get_section(cf, section) == IF section \in DOMAIN cf THEN cf[section] ELSE EmptyMap

get_sections(cf) == cf

\* conf.get("", section, setting, None, 0): the default when there is no such option
conf_get(cf, section, setting) ==
    IF section \in DOMAIN cf /\ setting \in DOMAIN cf[section]
    THEN cf[section][setting] ELSE "None"

ShouldRemove_never(given, has) == FALSE

\* cmd_setconfigs: "if not args[section] and self.conf.has_section(section)"
ShouldRemove(given, has) == DOMAIN given = {} /\ has

\* cmd_setconfigs: changes.update({ section : { setting : value } })
ChangesUpdate(changes, section, setting, value) ==
    Upd(changes, section, Upd(EmptyMap, setting, value))

\* the inner loop of cmd_setconfigs over the settings of one section, in the
\* dict's iteration order
RECURSIVE SettingLoop(_, _, _, _)
SettingLoop(r, section, given, settings) ==
    IF settings = <<>> THEN r
    ELSE LET setting == Head(settings)
         IN SettingLoop([conf |-> conf_set(r.conf, section, setting, given[setting]),
                         changes |-> ChangesUpdate(r.changes, section, setting,
                                                   given[setting])],
                        section, given, Tail(settings))

RECURSIVE SectionLoop(_, _, _, _)
SectionLoop(r, args, sections, ord) ==
    IF sections = <<>> THEN r
    ELSE LET section == Head(sections)
             r2 == IF ShouldRemove(args[section], has_section(r.conf, section))
                   THEN [r EXCEPT !.conf = remove_section(r.conf, section)]
                   ELSE SettingLoop(r, section, args[section],
                                    Keep(ord, DOMAIN args[section]))
         IN SectionLoop(r2, args, Tail(sections), ord)

\* an option path "section" or "section.setting", split by escsplit
Path(section, setting) == [section |-> section, setting |-> setting]

\* cmd_configs: the reply
RECURSIVE ConfigsLoop(_, _, _)
ConfigsLoop(ret, cf, args) ==
    IF args = <<>> THEN ret
    ELSE LET opt == Head(args)
             val == conf_get(cf, opt.section, opt.setting)
             ret2 == IF opt.setting = ""
                     THEN Upd(ret, opt.section, get_section(cf, opt.section))
                     ELSE IF opt.section \in DOMAIN ret
                     THEN Upd(ret, opt.section, Upd(ret[opt.section], opt.setting, val))
                     ELSE Upd(ret, opt.section, Upd(EmptyMap, opt.setting, val))
         IN ConfigsLoop(ret2, cf, Tail(args))

ConfigsReply(cf, args) ==
    IF args # <<>> THEN ConfigsLoop(EmptyMap, cf, args) ELSE get_sections(cf)

SectionPaths(sections) == [i \in 1..Len(sections) |-> Path(sections[i], "")]

\* on_config_change: one CONFIGS per entry of the config watch list
ConfigPushes(w, cf, change) ==
    [i \in 1..Len(w.config) |->
        WriteEv(w.config[i], "CONFIGS",
                ConfigsReply(cf, SectionPaths(SetToSeq(DOMAIN change))))]

\* the setting maps a request gives for one section: empty, one setting, both
SettingMaps == {m \in UNION {[K -> Values] : K \in SUBSET Settings} :
                   "keep" \in DOMAIN m => m["keep"] = "v2"}

\* { section : { setting : value } } requests
ConfArgs == UNION {[S -> SettingMaps] : S \in (SUBSET Sections) \ {{}}}

SettingOrders == {<<"rate", "keep">>, <<"keep", "rate">>}

Paths == {Path(s, k) : s \in Sections, k \in Settings \cup {""}}

\* CONFIGS requests: no path, one path, two paths of one section
ConfigsArgs == UNION {[1..n -> Paths] : n \in 0..1} \cup
               {<<p, q>> : p, q \in {x \in Paths : x.section = "defaults"}}

\* ---------------------------------------------------------------- actions
set_extra_tags(tag, extras) ==
    /\ extra_tags' = [t \in DOMAIN extra_tags \cup {tag} |->
                         IF t = tag THEN extras ELSE extra_tags[t]]
    /\ trace' = <<>>
    /\ lastOp' = [Op("set_extra_tags") EXCEPT !.tag = tag]
    /\ UNCHANGED <<tags, changed_tags, mutated, tag_transforms, backvars>>

tag_transform(tag, transform) ==
    /\ tag_transforms' = Upd(tag_transforms, tag, transform)
    /\ trace' = <<>>
    /\ lastOp' = [Op("tag_transform") EXCEPT !.tag = tag]
    /\ UNCHANGED <<tags, changed_tags, extra_tags, mutated, backvars>>

add_tag(id, name) ==
    LET r == AddLoop(Start, id, AllAdded(extra_tags, name))
    IN /\ tags' = r.tags
       /\ changed_tags' = r.changed
       /\ mutated' = Bump(mutated, r.touched)
       /\ trace' = r.events
       /\ lastOp' = [Op("add_tag") EXCEPT !.id = id, !.tag = name, !.n = Len(r.touched)]
       /\ UNCHANGED <<extra_tags, tag_transforms, backvars>>

remove_tag(id, name) ==
    LET hit == HasTag(tags, name) /\ RemoveHit(TagIds(tags, name), id)
    IN /\ tags' = IF hit THEN SetTagIds(tags, name, ListRemove(TagIds(tags, name), id))
                  ELSE tags
       /\ changed_tags' = IF hit THEN tag_changed(changed_tags, name) ELSE changed_tags
       /\ mutated' = IF hit THEN Bump(mutated, <<name>>) ELSE mutated
       /\ trace' = <<>>
       /\ lastOp' = [Op("remove_tag") EXCEPT !.id = id, !.tag = name,
                                            !.n = IF hit THEN 1 ELSE 0]
       /\ UNCHANGED <<extra_tags, tag_transforms, backvars>>

remove_id(id) ==
    LET r == RemoveLoop(Start, id, 1)
    IN /\ tags' = r.tags
       /\ changed_tags' = r.changed
       /\ mutated' = Bump(mutated, r.touched)
       /\ trace' = <<>>
       /\ lastOp' = [Op("remove_id") EXCEPT !.id = id, !.n = Len(r.touched)]
       /\ UNCHANGED <<extra_tags, tag_transforms, backvars>>

reset ==
    /\ tag_transforms' = EmptyMap
    /\ extra_tags' = EmptyMap
    /\ changed_tags' = ResetLoop(changed_tags, tags, 1)
    /\ tags' = <<>>
    /\ mutated' = Bump(mutated, TagKeys(tags))
    /\ trace' = <<>>
    /\ lastOp' = [Op("reset") EXCEPT !.n = Len(tags)]
    /\ UNCHANGED backvars

work_done ==
    LET r == RunWorkDone(Subscribers("daemon_work_done"),
                         [changed |-> changed_tags, trace |-> <<>>])
    IN /\ changed_tags' = r.changed
       /\ mutated' = [t \in TagNames |-> 0]
       /\ trace' = r.trace
       /\ lastOp' = [Op("work_done") EXCEPT !.n = MaxOf({mutated[t] : t \in TagNames}),
                                           !.m = Len(changed_tags)]
       /\ UNCHANGED <<tags, extra_tags, tag_transforms, backvars>>

\* ---------------------------------------------------------------- dispatcher actions
cmd_watchconfigs(sock) ==
    /\ WatchTotal(watches) < MaxWatch
    /\ watches' = [watches EXCEPT !.config = Append(@, sock)]
    /\ trace' = <<>>
    /\ lastOp' = [Op("cmd_watchconfigs") EXCEPT !.sock = sock]
    /\ UNCHANGED <<tagvars, prot, feeds, dead_feeds, conf, conf_file, returned>>

cmd_watchnewtags(sock) ==
    /\ WatchTotal(watches) < MaxWatch
    /\ watches' = [watches EXCEPT !.new_tags = Append(@, sock)]
    /\ trace' = <<>>
    /\ lastOp' = [Op("cmd_watchnewtags") EXCEPT !.sock = sock]
    /\ UNCHANGED <<tagvars, prot, feeds, dead_feeds, conf, conf_file, returned>>

cmd_watchdeltags(sock) ==
    /\ WatchTotal(watches) < MaxWatch
    /\ watches' = [watches EXCEPT !.del_tags = Append(@, sock)]
    /\ trace' = <<>>
    /\ lastOp' = [Op("cmd_watchdeltags") EXCEPT !.sock = sock]
    /\ UNCHANGED <<tagvars, prot, feeds, dead_feeds, conf, conf_file, returned>>

cmd_watchtags(sock, args) ==
    /\ WatchTotal(watches) + Len(args) <= MaxWatch
    /\ watches' = [watches EXCEPT !.tags = WatchTagsLoop(@, sock, args)]
    /\ trace' = <<>>
    /\ lastOp' = [Op("cmd_watchtags") EXCEPT !.sock = sock, !.n = Len(args)]
    /\ UNCHANGED <<tagvars, prot, feeds, dead_feeds, conf, conf_file, returned>>

cmd_ping(sock) ==
    /\ trace' = <<WriteEv(sock, "PONG", "")>>
    /\ lastOp' = [Op("cmd_ping") EXCEPT !.sock = sock]
    /\ UNCHANGED <<tagvars, backvars>>

cmd_items(sock, args, keep) ==
    LET r == ItemsLoop([response |-> EmptyMap, prot |-> prot], sock, args, keep)
        got == UNION {ListSet(r.response[t]) : t \in DOMAIN r.response}
    IN /\ prot' = r.prot
       /\ returned' = [returned EXCEPT ![sock] = @ \cup got]
       /\ trace' = <<WriteEv(sock, "ITEMS", r.response)>>
       /\ lastOp' = [Op("cmd_items") EXCEPT !.sock = sock, !.n = Cardinality(got)]
       /\ UNCHANGED <<tagvars, watches, feeds, dead_feeds, conf, conf_file>>

cmd_protect(sock, args) ==
    /\ prot' = ProtectLoop(prot, sock, args, SetToSeq(DOMAIN args))
    /\ trace' = <<>>
    /\ lastOp' = Op("cmd_protect")
    /\ UNCHANGED <<tagvars, watches, feeds, dead_feeds, conf, conf_file, returned>>

cmd_unprotect(sock, args) ==
    /\ prot' = UnprotectLoop(prot, sock, args, SetToSeq(DOMAIN args))
    /\ returned' = [returned EXCEPT ![sock] = @ \ Named(args)]
    /\ trace' = <<>>
    /\ lastOp' = Op("cmd_unprotect")
    /\ UNCHANGED <<tagvars, watches, feeds, dead_feeds, conf, conf_file>>

\* the kill_socket hook: on_kill_socket
on_kill_socket(sock) ==
    LET p == unprotect(prot, ProtKey(sock, "auto"))
        ls == WatchLists(watches)
    IN /\ watches' = KillWatches(watches, sock)
       /\ prot' = p
       /\ dead_feeds' = check_dead_feeds(dead_feeds, p)
       /\ returned' = [returned EXCEPT ![sock] = {}]
       /\ trace' = <<>>
       /\ lastOp' = [Op("kill_socket") EXCEPT
                        !.sock = sock,
                        !.n = WatchTotal(watches) - WatchTotal(KillWatches(watches, sock)),
                        !.m = MaxOf({Count(sock, ls[i]) : i \in 1..Len(ls)})]
       /\ UNCHANGED <<tagvars, feeds, conf, conf_file>>

\* conf.parse(): the configuration read back from its store
conf_parse(file) == file

\* conf.parse(): what the reparse does to the tag registry ("same": nothing,
\* "reset": alltags.reset(), "new": a tag that was not there appears)
ParseTags(how) ==
    IF how = "reset"
    THEN [tags |-> <<>>, changed |-> ResetLoop(changed_tags, tags, 1),
          extra |-> EmptyMap, transforms |-> EmptyMap, touched |-> TagKeys(tags)]
    ELSE IF how = "new" /\ ~HasTag(tags, "xkcd")
    THEN [tags |-> Append(tags, [name |-> "xkcd", ids |-> <<>>]),
          changed |-> changed_tags, extra |-> extra_tags,
          transforms |-> tag_transforms, touched |-> <<>>]
    ELSE [tags |-> tags, changed |-> changed_tags, extra |-> extra_tags,
          transforms |-> tag_transforms, touched |-> <<>>]

\* on_config_change: the tag names that appeared and disappeared in the reparse
NewTags(pre, post) == Keep(post, ListSet(post) \ ListSet(pre))

OldTags(pre, post) == Keep(pre, ListSet(pre) \ ListSet(post))

\* SETCONFIGS, with the config_change hook it publishes: on_config_change
cmd_setconfigs(sock, args, ord, dying, how) ==
    LET r == SectionLoop([conf |-> conf, changes |-> EmptyMap], args,
                         SetToSeq(DOMAIN args), ord)
        heard == InList("on_config_change", Subscribers("config_change"))
        pt == IF heard THEN ParseTags(how) ELSE ParseTags("same")
        newtags == NewTags(TagKeys(tags), TagKeys(pt.tags))
        oldtags == OldTags(TagKeys(tags), TagKeys(pt.tags))
        marked == dead_feeds \cup dying
    IN /\ conf_file' = r.conf
       /\ conf' = IF heard THEN conf_parse(r.conf) ELSE r.conf
       /\ tags' = pt.tags
       /\ changed_tags' = pt.changed
       /\ extra_tags' = pt.extra
       /\ tag_transforms' = pt.transforms
       /\ mutated' = Bump(mutated, pt.touched)
       /\ feeds' = IF heard THEN feeds \ dying ELSE feeds
       /\ dead_feeds' = IF heard THEN check_dead_feeds(marked, prot) ELSE dead_feeds
       /\ trace' = <<ConfWriteEv, HookEv("config_change", r.changes)>> \o
                   (IF heard
                    THEN ConfigPushes(watches, r.conf, r.changes) \o
                         (IF newtags # <<>> THEN call_hook("new_tag", newtags) ELSE <<>>) \o
                         (IF oldtags # <<>> THEN call_hook("del_tag", oldtags) ELSE <<>>)
                    ELSE <<>>)
       /\ lastOp' = [Op("cmd_setconfigs") EXCEPT
                        !.arg = args,
                        !.n = Cardinality(dying),
                        !.m = Cardinality({x \in DOMAIN args :
                                  DOMAIN args[x] = {} /\ has_section(conf, x)})]
       /\ UNCHANGED <<watches, prot, returned>>

\* a tag_change event that reaches the dispatcher: call_hook("tag_change", [tag])
tag_change_event(tag) ==
    /\ trace' = call_hook("tag_change", tag)
    /\ lastOp' = [Op("tag_change") EXCEPT !.tag = tag]
    /\ UNCHANGED <<tagvars, backvars>>

cmd_configs(sock, args) ==
    /\ trace' = <<WriteEv(sock, "CONFIGS", ConfigsReply(conf, args))>>
    /\ lastOp' = [Op("cmd_configs") EXCEPT !.sock = sock, !.arg = args]
    /\ UNCHANGED <<tagvars, backvars>>

\* ---------------------------------------------------------------- main loop
\* run(): "self.fetch_timer = 60"
FetchInterval == 60

\* the commands the server has queued and run() has not dequeued yet
MaxQueue == 2

LoopStates == {"dequeue", "conns"}

NoSocket == ""

\* a queued (socket, (cmd, args)); iterable tells whether the decoded payload
\* is a list, as the handlers that loop over it need
Command(sock, cmd, args, iterable) ==
    [sock |-> sock, cmd |-> cmd, args |-> args, iterable |-> iterable]

Commands ==
    {Command("S1", c, <<>>, TRUE) : c \in {"DIE", "die", "PING", "WATCHNEWTAGS", "NOSUCH"}}
    \cup {Command("S1", "ITEMS", <<"comics">>, TRUE), Command("S1", "ITEMS", <<>>, FALSE)}

\* cmd.lower()
lower(cmd) ==
    CASE cmd = "DIE"          -> "die"
      [] cmd = "PING"         -> "ping"
      [] cmd = "WATCHNEWTAGS" -> "watchnewtags"
      [] cmd = "ITEMS"        -> "items"
      [] cmd = "NOSUCH"       -> "nosuch"
      [] OTHER                -> cmd

\* cmdf = "cmd_" + cmd.lower(): the handler's name without its prefix
CmdF(cmd) == lower(cmd)

hasattr_any(cmdf) == TRUE

\* hasattr(self, cmdf): the cmd_ methods of the dispatcher
hasattr(cmdf) ==
    cmdf \in {"ping", "listfeeds", "listtransforms", "items", "attributes",
              "setattributes", "configs", "setconfigs", "watchconfigs",
              "watchnewtags", "watchdeltags", "watchtags", "protect", "unprotect"}

IsDie_never(cmd) == FALSE

\* run(): if cmd == "DIE"
IsDie(cmd) == cmd = "DIE"

TimerExpired_early(t) == t <= 1

\* run(): if self.fetch_timer <= 0
TimerExpired(t) == t <= 0

Caught_only_interrupt(exc) == exc = "KeyboardInterrupt"

\* start(): the except clauses after run()
Caught(exc) == exc \in {"KeyboardInterrupt", "Exception"}

NoLoopOp == [step |-> "init", cmd |-> "", ran |-> "", alarmed |-> FALSE, fetched |-> FALSE]

\* a step of the loop that calls no handler of the registries
Quiet(op) ==
    /\ trace' = <<>>
    /\ lastOp' = Op(op)
    /\ UNCHANGED <<tagvars, backvars>>

\* func(socket, args) for the handlers the queued commands reach; a handler
\* that loops over a payload that is no list raises, and so does getattr of a
\* method the dispatcher does not have
Dispatch(c) ==
    LET f == CmdF(c.cmd)
        raises == \/ f \notin {"ping", "watchnewtags", "items"}
                  \/ f = "items" /\ ~c.iterable
    IN /\ pc' = IF raises THEN "Exception" ELSE "conns"
       /\ loopOp' = [NoLoopOp EXCEPT !.step = "dispatch", !.cmd = c.cmd, !.ran = f]
       /\ CASE raises             -> Quiet("raise")
            [] f = "ping"         -> cmd_ping(c.sock)
            [] f = "watchnewtags" -> cmd_watchnewtags(c.sock)
            [] OTHER              -> cmd_items(c.sock, c.args, Ids)

\* run(), from the top of the loop to the end of the dispatch
run_dispatch ==
    /\ pc = "dequeue"
    /\ queue' = IF queue = <<>> THEN queue ELSE Tail(queue)
    /\ IF queue = <<>>
       THEN /\ pc' = "conns"
            /\ loopOp' = [NoLoopOp EXCEPT !.step = "dispatch"]
            /\ Quiet("run")
       ELSE LET c == Head(queue)
            IN IF IsDie(c.cmd)
               THEN /\ pc' = "returned"
                    /\ loopOp' = [NoLoopOp EXCEPT !.step = "dispatch", !.cmd = c.cmd]
                    /\ Quiet("run")
               ELSE IF hasattr(CmdF(c.cmd))
               THEN Dispatch(c)
               ELSE /\ pc' = "conns"
                    /\ loopOp' = [NoLoopOp EXCEPT !.step = "dispatch", !.cmd = c.cmd]
                    /\ Quiet("run")
    /\ UNCHANGED <<alarmed, fetch_timer, shutdown, sweep, shelfvars>>

\* run(), from check_conns() to the end of the iteration; dead is the socket
\* check_conns() found closed (it publishes kill_socket), or none
run_rest(dead) ==
    LET t == fetch_timer - 1
        fetch == alarmed /\ TimerExpired(t)
    IN /\ pc = "conns"
       /\ pc' = "dequeue"
       /\ IF dead = NoSocket THEN Quiet("run") ELSE on_kill_socket(dead)
       /\ fetch_timer' = IF ~alarmed THEN fetch_timer
                         ELSE IF TimerExpired(t) THEN FetchInterval ELSE t
       /\ alarmed' = FALSE
       /\ sweep' = IF ~alarmed THEN sweep
                   ELSE IF fetch
                   THEN [count |-> IF sweep.count < 2 THEN sweep.count + 1 ELSE 2,
                         since |-> 0]
                   ELSE [sweep EXCEPT !.since = IF @ < FetchInterval THEN @ + 1 ELSE @]
       /\ loopOp' = [NoLoopOp EXCEPT !.step = "rest", !.alarmed = alarmed, !.fetched = fetch]
       /\ UNCHANGED <<queue, shutdown, shelfvars>>

\* the SIGALRM handler
sig_alrm ==
    /\ pc \in LoopStates
    /\ alarmed' = TRUE
    /\ UNCHANGED <<tagvars, backvars, trace, lastOp, queue, pc, fetch_timer, shutdown,
                   loopOp, sweep, shelfvars>>

\* ^C while run() is in its loop
interrupt ==
    /\ pc \in LoopStates
    /\ pc' = "KeyboardInterrupt"
    /\ loopOp' = [NoLoopOp EXCEPT !.step = "interrupt"]
    /\ UNCHANGED <<tagvars, backvars, trace, lastOp, queue, alarmed, fetch_timer,
                   shutdown, sweep, shelfvars>>

\* start(), after run() returned or raised
start_exit ==
    /\ pc \in {"returned", "KeyboardInterrupt", "Exception"}
    /\ IF pc = "returned" \/ Caught(pc)
       THEN /\ shutdown' = shutdown \o <<"exit", "pid_unlock", "sys.exit">>
            /\ pc' = "exited"
       ELSE /\ shutdown' = shutdown
            /\ pc' = "crashed"
    /\ loopOp' = [NoLoopOp EXCEPT !.step = "start_exit"]
    /\ UNCHANGED <<tagvars, backvars, trace, lastOp, queue, alarmed, fetch_timer,
                   sweep, shelfvars>>

\* the server's reader puts a decoded command on the queue
enqueue(c) ==
    /\ pc \in LoopStates
    /\ Len(queue) < MaxQueue
    /\ queue' = Append(queue, c)
    /\ UNCHANGED <<tagvars, backvars, trace, lastOp, pc, alarmed, fetch_timer, shutdown,
                   loopOp, sweep, shelfvars>>

\* ---------------------------------------------------------------- shelf
Keys == {"k1", "k2"}

Vals == {"a", "b"}

Filename == "feeds"

\* whichdb() != 'dbm.gnu' (no reorganize), reorganize done, reorganize failed
ReorgOutcomes == {"skipped", "ok", "failed"}

NoShelf == [made |-> FALSE, open |-> FALSE, cache |-> EmptyMap, db |-> EmptyMap]

\* what __getitem__ answers for every key __contains__ finds
ShelfView(sh, wb) ==
    [k \in DOMAIN sh.db |-> IF wb /\ k \in DOMAIN sh.cache THEN sh.cache[k] ELSE sh.db[k]]

ShelfSync_drop_cache(sh, wb) == [sh EXCEPT !.cache = EmptyMap]

\* self.shelf.sync(), the shelve part: with writeback every cached entry is
\* written to the dbm and the cache is emptied
ShelfSync(sh, wb) ==
    IF wb
    THEN [sh EXCEPT !.db = [k \in DOMAIN sh.db \cup DOMAIN sh.cache |->
                               IF k \in DOMAIN sh.cache THEN sh.cache[k] ELSE sh.db[k]],
                    !.cache = EmptyMap]
    ELSE sh

\* self.shelf.sync(), the dbm part: the file gets the dbm's content; a record
\* that goes leaves a hole in the file
Flush(dk, db) ==
    [data |-> db, holes |-> dk.holes \/ (DOMAIN dk.data \ DOMAIN db # {})]

\* _reorganize: done, it takes the holes out of the file; failed, it is logged
Reorganize(dk, outcome) == IF outcome = "ok" THEN [dk EXCEPT !.holes = FALSE] ELSE dk

\* shelve.open(self.filename, mode)
ShelfOpen(dk) == [made |-> TRUE, open |-> TRUE, cache |-> EmptyMap, db |-> dk.data]

\* close(), up to "self.shelf = None"
ShelfClose(sh, dk, wb, outcome) ==
    [shelf |-> [NoShelf EXCEPT !.made = TRUE],
     disk |-> Reorganize(Flush(dk, ShelfSync(sh, wb).db), outcome)]

\* CantoShelf(filename, writeback)
shelf_init(wb) ==
    /\ ~shelf.made
    /\ writeback' = wb
    /\ shelf' = ShelfOpen(disk)
    /\ flushed' = <<>>
    /\ trace' = call_hook("daemon_db_open", Filename)
    /\ lastOp' = Op("shelf_init")
    /\ UNCHANGED <<tagvars, backvars, loopvars, disk, feed_lock, hist>>

open ==
    /\ shelf.made /\ ~shelf.open
    /\ shelf' = ShelfOpen(disk)
    /\ flushed' = <<>>
    /\ trace' = call_hook("daemon_db_open", Filename)
    /\ lastOp' = Op("open")
    /\ UNCHANGED <<tagvars, backvars, loopvars, disk, writeback, feed_lock, hist>>

setitem(name, value) ==
    /\ shelf.open
    /\ shelf' = [shelf EXCEPT !.db = Upd(@, name, value),
                              !.cache = IF writeback THEN Upd(@, name, value) ELSE @]
    /\ hist' = Upd(hist, name, value)
    /\ flushed' = <<>>
    /\ trace' = <<>>
    /\ lastOp' = [Op("setitem") EXCEPT !.tag = name]
    /\ UNCHANGED <<tagvars, backvars, loopvars, disk, writeback, feed_lock>>

\* __getitem__: with writeback the object read stays in the cache
getitem(name) ==
    /\ shelf.open /\ name \in DOMAIN shelf.db
    /\ shelf' = IF writeback /\ name \notin DOMAIN shelf.cache
                THEN [shelf EXCEPT !.cache = Upd(@, name, shelf.db[name])]
                ELSE shelf
    /\ flushed' = <<>>
    /\ trace' = <<>>
    /\ lastOp' = [Op("getitem") EXCEPT !.tag = name]
    /\ UNCHANGED <<tagvars, backvars, loopvars, disk, writeback, feed_lock, hist>>

\* the caller changes in place the object __getitem__ gave it (writeback)
mutate(name, value) ==
    /\ shelf.open /\ writeback /\ name \in DOMAIN shelf.cache
    /\ shelf' = [shelf EXCEPT !.cache = Upd(@, name, value)]
    /\ hist' = Upd(hist, name, value)
    /\ flushed' = <<>>
    /\ trace' = <<>>
    /\ lastOp' = [Op("mutate") EXCEPT !.tag = name]
    /\ UNCHANGED <<tagvars, backvars, loopvars, disk, writeback, feed_lock>>

delitem(name) ==
    /\ shelf.open /\ name \in DOMAIN shelf.db
    /\ shelf' = [shelf EXCEPT !.db = Del(@, name), !.cache = Del(@, name)]
    /\ hist' = Del(hist, name)
    /\ flushed' = <<>>
    /\ trace' = <<>>
    /\ lastOp' = [Op("delitem") EXCEPT !.tag = name]
    /\ UNCHANGED <<tagvars, backvars, loopvars, disk, writeback, feed_lock>>

\* sync(), wrapped by wlock_feeds: it waits for the write lock, flushes, and
\* gives the lock back
sync ==
    /\ shelf.open
    /\ feed_lock = "free"
    /\ shelf' = ShelfSync(shelf, writeback)
    /\ disk' = Flush(disk, ShelfSync(shelf, writeback).db)
    /\ flushed' = <<"dispatch">>
    /\ trace' = <<SyncEv>>
    /\ lastOp' = Op("sync")
    /\ UNCHANGED <<tagvars, backvars, loopvars, writeback, feed_lock, hist>>

close(outcome) ==
    LET r == ShelfClose(shelf, disk, writeback, outcome)
    IN /\ shelf.open
       /\ shelf' = r.shelf
       /\ disk' = r.disk
       /\ flushed' = <<feed_lock>>
       /\ trace' = <<SyncEv>> \o call_hook("daemon_db_close", Filename)
       /\ lastOp' = [Op("close") EXCEPT !.arg = outcome]
       /\ UNCHANGED <<tagvars, backvars, loopvars, writeback, feed_lock, hist>>

\* trim(): close(), then open()
trim(outcome) ==
    LET r == ShelfClose(shelf, disk, writeback, outcome)
    IN /\ shelf.open
       /\ shelf' = ShelfOpen(r.disk)
       /\ disk' = r.disk
       /\ flushed' = <<feed_lock>>
       /\ trace' = <<SyncEv>> \o call_hook("daemon_db_close", Filename)
                              \o call_hook("daemon_db_open", Filename)
       /\ lastOp' = [Op("trim") EXCEPT !.arg = outcome]
       /\ UNCHANGED <<tagvars, backvars, loopvars, writeback, feed_lock, hist>>

\* the fetch thread takes the feed-data lock in write mode, and gives it back
fetch_acquire ==
    /\ feed_lock = "free"
    /\ feed_lock' = "fetch"
    /\ UNCHANGED <<tagvars, backvars, loopvars, trace, lastOp, shelf, disk, writeback,
                   hist, flushed>>

fetch_release ==
    /\ feed_lock = "fetch"
    /\ feed_lock' = "free"
    /\ UNCHANGED <<tagvars, backvars, loopvars, trace, lastOp, shelf, disk, writeback,
                   hist, flushed>>

Init ==
    /\ tags = <<>>
    /\ changed_tags = <<>>
    /\ extra_tags = EmptyMap
    /\ mutated = [t \in TagNames |-> 0]
    /\ watches = [new_tags |-> <<>>, del_tags |-> <<>>, config |-> <<>>, tags |-> EmptyMap]
    /\ prot = [key \in Sockets \X Reasons |-> {}]
    /\ feeds = FeedNames
    /\ dead_feeds = {}
    /\ conf = EmptyMap
    /\ conf_file = EmptyMap
    /\ returned = [s \in Sockets |-> {}]
    /\ trace = <<>>
    /\ lastOp = NoOp
    /\ tag_transforms = EmptyMap
    /\ queue = <<>>
    /\ pc = "dequeue"
    /\ alarmed = FALSE
    /\ fetch_timer = 0
    /\ shutdown = <<>>
    /\ loopOp = NoLoopOp
    /\ sweep = [count |-> 0, since |-> 0]
    /\ shelf = NoShelf
    /\ disk = [data |-> EmptyMap, holes |-> FALSE]
    /\ writeback = FALSE
    /\ feed_lock = "free"
    /\ hist = EmptyMap
    /\ flushed = <<>>

NextTags ==
    \/ \E t \in AliasedTags, ex \in ExtraLists : set_extra_tags(t, ex) /\ UNCHANGED othervars
    \/ \E id \in Ids, t \in TagNames : add_tag(id, t) /\ UNCHANGED othervars
    \/ \E id \in Ids, t \in TagNames : remove_tag(id, t) /\ UNCHANGED othervars
    \/ \E id \in Ids : remove_id(id) /\ UNCHANGED othervars
    \/ reset /\ UNCHANGED othervars
    \/ work_done /\ UNCHANGED othervars

SpecTags == Init /\ [][NextTags]_vars

NextWatch ==
    \/ \E s \in Sockets : cmd_watchconfigs(s) /\ UNCHANGED othervars
    \/ \E s \in Sockets : cmd_watchnewtags(s) /\ UNCHANGED othervars
    \/ \E s \in Sockets : cmd_watchdeltags(s) /\ UNCHANGED othervars
    \/ \E s \in Sockets, a \in WatchArgs : cmd_watchtags(s, a) /\ UNCHANGED othervars
    \/ \E s \in Sockets : on_kill_socket(s) /\ UNCHANGED othervars

SpecWatch == Init /\ [][NextWatch]_vars

NextProt ==
    \/ \E id \in Ids : add_tag(id, "comics") /\ UNCHANGED othervars
    \/ \E s \in Sockets, a \in ItemArgs, keep \in Filters : cmd_items(s, a, keep) /\ UNCHANGED othervars
    \/ \E s \in Sockets, a \in ProtArgs1 : cmd_unprotect(s, a) /\ UNCHANGED othervars
    \/ \E s \in Sockets : on_kill_socket(s) /\ UNCHANGED othervars

SpecProt == Init /\ [][NextProt]_vars

NextFeeds ==
    \/ \E s \in Sockets, a \in ProtArgs1 : cmd_protect(s, a) /\ UNCHANGED othervars
    \/ \E s \in Sockets, a \in ProtArgs1 : cmd_unprotect(s, a) /\ UNCHANGED othervars
    \/ \E s \in Sockets : on_kill_socket(s) /\ UNCHANGED othervars
    \/ \E dying \in SUBSET feeds : 
          cmd_setconfigs("S1", EmptyMap, <<"rate", "keep">>, dying, "same") /\ UNCHANGED othervars

SpecFeeds == Init /\ [][NextFeeds]_vars

NextConf ==
    \/ \E a \in ConfArgs, ord \in SettingOrders : cmd_setconfigs("S1", a, ord, {}, "same") /\ UNCHANGED othervars
    \/ \E s \in Sockets, a \in ConfigsArgs : cmd_configs(s, a) /\ UNCHANGED othervars

SpecConf == Init /\ [][NextConf]_vars

NextPush ==
    \/ \E id \in Ids : add_tag(id, "comics") /\ UNCHANGED othervars
    \/ \E id \in Ids : remove_tag(id, "comics") /\ UNCHANGED othervars
    \/ \E s \in Sockets, t \in TagNames : cmd_watchtags(s, <<t>>) /\ UNCHANGED othervars
    \/ \E s \in Sockets : on_kill_socket(s) /\ UNCHANGED othervars
    \/ work_done /\ UNCHANGED othervars

SpecPush == Init /\ [][NextPush]_vars

NextReset ==
    \/ \E ex \in {<<>>, <<"xkcd">>} : set_extra_tags("comics", ex) /\ UNCHANGED othervars
    \/ tag_transform("comics", "t1") /\ UNCHANGED othervars
    \/ \E id \in Ids, t \in TagNames : add_tag(id, t) /\ UNCHANGED othervars
    \/ \E id \in Ids : remove_id(id) /\ UNCHANGED othervars
    \/ reset /\ UNCHANGED othervars
    \/ work_done /\ UNCHANGED othervars

SpecReset == Init /\ [][NextReset]_vars

\* the SETCONFIGS request of the watch-push runs: one setting of one section
OneSetting == Upd(EmptyMap, "defaults", Upd(EmptyMap, "rate", "v1"))

NextDup ==
    \/ \E s \in Sockets : cmd_watchconfigs(s) /\ UNCHANGED othervars
    \/ \E s \in Sockets : cmd_watchnewtags(s) /\ UNCHANGED othervars
    \/ \E s \in Sockets : cmd_watchdeltags(s) /\ UNCHANGED othervars
    \/ \E s \in Sockets : cmd_watchtags(s, <<"comics">>) /\ UNCHANGED othervars
    \/ \E s \in Sockets : on_kill_socket(s) /\ UNCHANGED othervars
    \/ \E how \in {"same", "new", "reset"} :
          cmd_setconfigs("S1", OneSetting, <<"rate", "keep">>, {}, how) /\ UNCHANGED othervars
    \/ \E t \in TagNames : tag_change_event(t) /\ UNCHANGED othervars

SpecDup == Init /\ [][NextDup]_vars

NextLoop ==
    \/ \E c \in Commands : enqueue(c)
    \/ run_dispatch
    \/ \E dead \in {NoSocket} \cup Sockets : run_rest(dead)
    \/ interrupt
    \/ start_exit

SpecLoop == Init /\ [][NextLoop]_vars

SpecLoopFair == SpecLoop /\ WF_vars(start_exit)

NextTimer ==
    \/ sig_alrm
    \/ run_dispatch
    \/ \E dead \in {NoSocket, "S1"} : run_rest(dead)

SpecTimer == Init /\ [][NextTimer]_vars

NextShelf ==
    \/ \E wb \in BOOLEAN : shelf_init(wb)
    \/ open
    \/ \E k \in Keys, v \in Vals : setitem(k, v)
    \/ \E k \in Keys : getitem(k)
    \/ \E k \in Keys, v \in Vals : mutate(k, v)
    \/ \E k \in Keys : delitem(k)
    \/ sync
    \/ \E o \in ReorgOutcomes : close(o)
    \/ \E o \in ReorgOutcomes : trim(o)
    \/ fetch_acquire
    \/ fetch_release

SpecShelf == Init /\ [][NextShelf]_vars

\* ================================================================ claims

Pos(s, x) == CHOOSE i \in 1..Len(s) : s[i] = x

RECURSIVE Without(_, _)
Without(s, x) ==
    IF s = <<>> THEN <<>>
    ELSE (IF Head(s) = x THEN <<>> ELSE <<Head(s)>>) \o Without(Tail(s), x)

TagChangeCount(tr, t) ==
    Cardinality({i \in 1..Len(tr) :
        tr[i].k = "hook" /\ tr[i].name = "daemon_tag_change" /\ tr[i].arg = t})

C1_NoDup == \A i \in 1..Len(tags) : NoDup(tags[i].ids)

C1_OrderStep ==
    \A t \in TagNames :
        LET b == get_tag(tags, t)
            a == get_tag(tags', t)
        IN \A x, y \in ListSet(a) :
              /\ (x \in ListSet(b) /\ y \in ListSet(b))
                    => (Pos(b, x) < Pos(b, y) <=> Pos(a, x) < Pos(a, y))
              /\ (x \in ListSet(b) /\ y \notin ListSet(b))
                    => Pos(a, x) < Pos(a, y)

\* C1: whatever add_tag, remove_tag, remove_id (and reset) did, no tag's list
\* holds an id twice, and every step keeps the ids that stay in a tag in their
\* relative order and puts an id that enters the tag after all that were there.
C1_NoDupInsertionOrder == []C1_NoDup /\ [][C1_OrderStep]_vars

C1_Witness ==
    /\ lastOp.op = "add_tag" /\ lastOp.id = 1 /\ lastOp.n >= 1
    /\ get_tag(tags, "comics") = <<2, 1>>
    /\ mutated["comics"] = 2

\* C2: a flush publishes the tag-change hook exactly once for every tag mutated
\* since the previous flush, never for a tag that was not, and leaves
\* changed_tags empty.
C2_OneChangePerDirtyTag ==
    [][lastOp'.op = "work_done" =>
          /\ \A t \in TagNames :
                TagChangeCount(trace', t) = (IF mutated[t] > 0 THEN 1 ELSE 0)
          /\ changed_tags' = <<>>]_vars

C2_Witness ==
    /\ lastOp.op = "work_done" /\ lastOp.n = 2 /\ lastOp.m = 1
    /\ Len(tags) = 2
    /\ changed_tags = <<>>

\* C3: after add_tag(id, T), id is in T and in every extra tag configured for
\* T, and T and each of those extra tags exist in the registry.
C3_AliasesReceiveId ==
    lastOp.op = "add_tag" =>
        \A a \in {lastOp.tag} \cup
                 (IF lastOp.tag \in DOMAIN extra_tags
                  THEN ListSet(extra_tags[lastOp.tag]) ELSE {}) :
            HasTag(tags, a) /\ InList(lastOp.id, get_tag(tags, a))

C3_Witness ==
    /\ lastOp.op = "add_tag" /\ lastOp.tag = "comics" /\ lastOp.n = 2
    /\ "comics" \in DOMAIN extra_tags
    /\ "xkcd" \in ListSet(extra_tags["comics"])
    /\ InList(lastOp.id, get_tag(tags, "xkcd"))

\* C4: an id that an ITEMS reply gave to socket S stays protected until S
\* disconnects or S names it in an UNPROTECT, whatever the other sockets do.
C4_ReturnedStayProtected ==
    \A s \in Sockets : \A id \in returned[s] : protected(prot, id)

C4_Witness ==
    /\ returned["S1"] # {}
    /\ returned["S2"] = {}
    /\ lastOp.op = "kill_socket" /\ lastOp.sock = "S2"

HasProtectedItem(f, p) == \E id \in ListSet(FeedItems(f)) : protected(p, id)

\* C5: a run of the dead-feed check (in the disconnect handler and in the
\* config-change handler) leaves in dead_feeds exactly the dead feeds that have
\* a protected item, and takes no feed out of the live feeds.
C5_CheckKeepsExactlyCommitted ==
    [][lastOp'.op \in {"kill_socket", "cmd_setconfigs"} =>
          LET marked == dead_feeds \cup (feeds \ feeds')
          IN /\ dead_feeds' = {f \in marked : HasProtectedItem(f, prot')}
             /\ feeds' \subseteq feeds
             /\ lastOp'.op = "kill_socket" => feeds' = feeds]_vars

C5_Witness ==
    /\ lastOp.op = "cmd_setconfigs" /\ lastOp.n = 3
    /\ dead_feeds = {"C"}
    /\ feeds = {}

\* C6 (as claimed): once a disconnect, an UNPROTECT or a config change has been
\* handled, no feed is left in dead_feeds with all its items unprotected.
C6_NoUncommittedDeadFeed ==
    lastOp.op \in {"kill_socket", "cmd_unprotect", "cmd_setconfigs"} =>
        \A f \in dead_feeds : HasProtectedItem(f, prot)

C7_Idempotent ==
    lastOp.op = "kill_socket" =>
        /\ KillWatches(watches, lastOp.sock) = watches
        /\ unprotect(prot, ProtKey(lastOp.sock, "auto")) = prot
        /\ check_dead_feeds(dead_feeds, prot) = dead_feeds

C7_KillStep ==
    lastOp'.op = "kill_socket" =>
        /\ watches'.config = Without(watches.config, lastOp'.sock)
        /\ watches'.new_tags = Without(watches.new_tags, lastOp'.sock)
        /\ watches'.del_tags = Without(watches.del_tags, lastOp'.sock)
        /\ DOMAIN watches'.tags = DOMAIN watches.tags
        /\ \A t \in DOMAIN watches.tags :
              watches'.tags[t] = Without(watches.tags[t], lastOp'.sock)

\* C7: the disconnect handler leaves each of the four watch structures as it
\* was with every entry of the socket taken out (the other sockets' entries
\* stay, in order), and handling the same disconnect again changes nothing.
C7_DisconnectClearsWatches == []C7_Idempotent /\ [][C7_KillStep]_vars

C7_Witness ==
    /\ lastOp.op = "kill_socket" /\ lastOp.sock = "S1"
    /\ lastOp.n = 3 /\ lastOp.m = 2
    /\ \E t \in DOMAIN watches.tags : watches.tags[t] = <<"S2">>

\* C8 (as claimed): in the handling of one daemon_work_done, the shelf's sync
\* comes before every tag-change publication.
C8_SyncBeforeTagChange ==
    lastOp.op = "work_done" =>
        \A i, j \in 1..Len(trace) :
            (trace[i].k = "sync" /\ trace[j].k = "hook"
                /\ trace[j].name = "daemon_tag_change") => i < j

HookArgs(tr, name) == {tr[i].arg : i \in {j \in 1..Len(tr) : tr[j].k = "hook" /\ tr[j].name = name}}

\* C9 (as claimed): the map published with config_change holds every
\* (section, setting, value) the handler applied, and the configuration is
\* written before the event is published.
C9_ChangeMapComplete ==
    lastOp.op = "cmd_setconfigs" =>
        /\ \A i, j \in 1..Len(trace) :
              (trace[i].k = "conf_write" /\ trace[j].k = "hook") => i < j
        /\ \A ch \in HookArgs(trace, "config_change") :
              \A s \in DOMAIN lastOp.arg : \A k \in DOMAIN lastOp.arg[s] :
                  /\ s \in DOMAIN ch
                  /\ k \in DOMAIN ch[s]
                  /\ ch[s][k] = lastOp.arg[s][k]
        /\ HookArgs(trace, "config_change") # {}

EmptyOrAbsent(reply, s) == s \in DOMAIN reply => DOMAIN reply[s] = {}

\* C10: SETCONFIGS with an empty map for a section leaves the configuration
\* without that section, a CONFIGS for the section then answers it empty or
\* absent, and when every section of the request is non-existent and mapped to
\* an empty map the configuration is unchanged.
C10_EmptyMapDeletesSection ==
    [][lastOp'.op = "cmd_setconfigs" =>
          LET a == lastOp'.arg
          IN /\ \A s \in DOMAIN a :
                   DOMAIN a[s] = {} =>
                      /\ ~has_section(conf', s)
                      /\ EmptyOrAbsent(ConfigsReply(conf', <<Path(s, "")>>), s)
             /\ (\A s \in DOMAIN a : DOMAIN a[s] = {} /\ ~has_section(conf, s))
                   => (conf' = conf /\ conf_file' = conf)
             /\ \A s \in Sections \ DOMAIN a :
                   /\ has_section(conf', s) <=> has_section(conf, s)
                   /\ has_section(conf, s) => conf'[s] = conf[s]]_vars

C10_Witness ==
    /\ lastOp.op = "cmd_setconfigs" /\ lastOp.m = 1
    /\ DOMAIN lastOp.arg = {"feed"}
    /\ DOMAIN conf = {"defaults"}

\* a step of run() that dequeues a command
DispatchStep == pc = "dequeue" /\ loopOp'.step = "dispatch" /\ queue # <<>>

Untouched == UNCHANGED <<tags, changed_tags, extra_tags, tag_transforms, watches, prot,
                         feeds, dead_feeds, conf, conf_file>>

C11_DieStep ==
    (DispatchStep /\ Head(queue).cmd = "DIE") =>
        /\ pc' = "returned"
        /\ queue' = Tail(queue)
        /\ loopOp'.ran = ""
        /\ trace' = <<>>
        /\ Untouched

C11_NoLaterDequeue == pc \notin LoopStates => queue' = queue

\* C11 (as claimed): dequeuing DIE makes run() return with no handler run and
\* no later command dequeued, and dequeuing any other command name leaves the
\* loop running.
C11_OnlyDieStops ==
    [][/\ C11_DieStep
       /\ C11_NoLaterDequeue
       /\ (DispatchStep /\ Head(queue).cmd # "DIE") => pc' \in LoopStates]_vars

\* C11: dequeuing DIE makes run() return with no handler run and no later
\* command dequeued; dequeuing any other command name never makes run() return,
\* and leaves the loop running unless the command's handler raises (ITEMS with
\* a payload that is no list), which ends the loop through start().
C11_OnlyDieReturns ==
    [][/\ C11_DieStep
       /\ C11_NoLaterDequeue
       /\ (DispatchStep /\ Head(queue).cmd # "DIE") =>
             /\ pc' # "returned"
             /\ \/ pc' \in LoopStates
                \/ Head(queue).cmd = "ITEMS" /\ ~Head(queue).iterable]_vars

C11_Witness ==
    /\ pc = "returned"
    /\ loopOp.step = "dispatch" /\ loopOp.cmd = "DIE"
    /\ queue # <<>> /\ Head(queue).cmd = "PING"

\* C12: dequeuing a command that has no handler writes to no socket, leaves the
\* watch, tag and protection registries, the configuration and the dead feeds
\* as they were, and leaves run() in its loop with the next queued command at
\* the head of the queue.
C12_UnknownOnlyLogged ==
    [][(DispatchStep /\ Head(queue).cmd \in {"NOSUCH", "die"}) =>
          /\ trace' = <<>>
          /\ Untouched
          /\ loopOp'.ran = ""
          /\ pc' \in LoopStates
          /\ queue' = Tail(queue)]_vars

C12_Witness ==
    /\ pc = "conns"
    /\ loopOp.step = "dispatch" /\ loopOp.cmd = "NOSUCH"
    /\ queue # <<>> /\ Head(queue).cmd = "PING"
    /\ watches.new_tags # <<>>

C17_Countdown ==
    (loopOp.step = "rest" /\ loopOp.alarmed) => fetch_timer \in 1..FetchInterval

C17_RestStep ==
    /\ sweep' # sweep => (pc = "conns" /\ loopOp'.step = "rest" /\ alarmed)
    /\ (pc = "conns" /\ loopOp'.step = "rest") =>
          /\ loopOp'.fetched <=> (alarmed /\ fetch_timer - 1 <= 0)
          /\ loopOp'.fetched => (fetch_timer' = FetchInterval /\ ~alarmed')
          /\ (loopOp'.fetched /\ sweep.count > 0) => sweep.since + 1 >= FetchInterval
          /\ loopOp'.fetched <=> (sweep'.since = 0 /\ alarmed)
          /\ alarmed => (fetch_timer' \in 1..FetchInterval /\ ~alarmed')

\* C17: the loop triggers a fetch sweep only in an iteration that finds the
\* alarm flag set and the countdown, one less, at or below zero; it then sets
\* the countdown to 60 and clears the flag; after an alarmed iteration the
\* countdown is between 1 and 60, and a loop-triggered sweep comes no sooner
\* than the 60th alarmed iteration after the previous one.
C17_FetchSpacing == []C17_Countdown /\ [][C17_RestStep]_vars

C17_Witness ==
    /\ loopOp.step = "rest" /\ loopOp.fetched
    /\ sweep.count = 2
    /\ fetch_timer = FetchInterval

C18_Shutdown ==
    /\ pc # "crashed"
    /\ pc = "exited" => shutdown = <<"exit", "pid_unlock", "sys.exit">>
    /\ pc # "exited" => shutdown = <<>>

C18_Leaving == pc \in {"returned", "KeyboardInterrupt", "Exception"}

\* C18: however run() ends (DIE, an exception of a handler, ^C), start() calls
\* exit() and then pid_unlock() once each, in that order, and then exits; once
\* run() has ended no command is dequeued.
C18_OrderlyShutdown ==
    /\ []C18_Shutdown
    /\ [][pc \notin LoopStates => queue' = queue]_vars
    /\ (C18_Leaving ~> (pc = "exited"))

C18_Witness ==
    /\ pc = "exited"
    /\ lastOp.op = "raise"
    /\ queue # <<>>
    /\ shutdown = <<"exit", "pid_unlock", "sys.exit">>

\* C13: after close() and open() on the same file (in two calls, or in trim())
\* the shelf answers every key that was set and not deleted with the value it
\* had, and no deleted key, whether the reorganize pass was skipped, done or
\* failed.
C13_ReopenPreserves ==
    lastOp.op \in {"open", "trim"} =>
        /\ shelf.open
        /\ ShelfView(shelf, writeback) = hist
        /\ disk.data = hist

C13_Witness ==
    /\ lastOp.op = "open"
    /\ writeback
    /\ disk.holes
    /\ DOMAIN hist = {"k1"} /\ hist["k1"] = "b"
    /\ shelf.db = hist

\* C19 (as claimed): every flush of the shelf to disk, by sync(), close() or
\* trim(), is made by a caller that holds the feed-data write lock.
C19_FlushUnderWriteLock ==
    \A i \in 1..Len(flushed) : flushed[i] = "dispatch"

WriteCount(tr, sock, cmd, arg) ==
    Cardinality({i \in 1..Len(tr) :
        tr[i].k = "write" /\ tr[i].sock = sock /\ tr[i].name = cmd /\ tr[i].arg = arg})

Watching(w, t) == IF t \in DOMAIN w.tags THEN ListSet(w.tags[t]) ELSE {}

\* C14 (as claimed): when the flush publishes the change of tag T, every
\* socket that watches T (WATCHTAGS, not disconnected since) is sent a
\* TAGCHANGE for T, and no other socket is.
C14_WatchersGetTagChange ==
    lastOp.op = "work_done" =>
        \A t \in TagNames : TagChangeCount(trace, t) > 0 =>
            \A s \in Sockets :
                WriteCount(trace, s, "TAGCHANGE", t) > 0 <=> s \in Watching(watches, t)

C15_ResetStep ==
    lastOp'.op = "reset" =>
        /\ tags' = <<>>
        /\ extra_tags' = EmptyMap
        /\ tag_transforms' = EmptyMap
        /\ \A t \in TagNames :
              /\ HasTag(tags, t) => (InList(t, changed_tags') /\ get_tag(tags', t) = <<>>)
              /\ InList(t, changed_tags') <=> (InList(t, changed_tags) \/ HasTag(tags, t))

C15_FlushStep ==
    IF lastOp'.op = "work_done"
    THEN \A t \in TagNames :
            TagChangeCount(trace', t) = (IF InList(t, changed_tags) THEN 1 ELSE 0)
    ELSE \A t \in TagNames : InList(t, changed_tags) => InList(t, changed_tags')

\* C15: reset() leaves the tag map, the extra-tag map and the transform map
\* empty and every tag that existed dirty, so get_tag answers the empty list
\* for each; a dirty tag stays dirty until the flush, and the flush publishes
\* the tag-change hook exactly once for each dirty tag.
C15_ResetMarksAllDirty == [][C15_ResetStep /\ C15_FlushStep]_vars

C15_Witness ==
    /\ lastOp.op = "work_done" /\ lastOp.m = 2
    /\ tags = <<>>
    /\ \A t \in TagNames : TagChangeCount(trace, t) = 1

NewTagCount(tr, t) ==
    Cardinality({i \in 1..Len(tr) :
        tr[i].k = "hook" /\ tr[i].name = "daemon_new_tag" /\ tr[i].arg = <<t>>})

\* C16: a step publishes the new-tag hook once for each tag name it creates
\* and for no other (so only add_tag does, at the creation, and the flush never
\* does); removing ids leaves the tag in the registry, so adding to an emptied
\* tag publishes nothing; only reset() takes a tag name out of the registry.
C16_NewTagOncePerName ==
    [][/\ \A t \in TagNames :
             NewTagCount(trace', t) = (IF ~HasTag(tags, t) /\ HasTag(tags', t) THEN 1 ELSE 0)
       /\ (\E t \in TagNames : NewTagCount(trace', t) > 0) => lastOp'.op = "add_tag"
       /\ lastOp'.op # "reset" => \A t \in TagNames : HasTag(tags, t) => HasTag(tags', t)
       /\ NoDup(TagKeys(tags'))]_vars

C16_Witness ==
    /\ lastOp.op = "add_tag" /\ lastOp.tag = "xkcd" /\ lastOp.id = 1 /\ lastOp.n = 1
    /\ trace = <<>>
    /\ get_tag(tags, "xkcd") = <<1>>
    /\ mutated["xkcd"] = 2

C20_RemoveNoOps ==
    /\ (lastOp'.op = "remove_tag" /\ ~InList(lastOp'.id, get_tag(tags, lastOp'.tag)))
          => UNCHANGED <<tags, changed_tags>>
    /\ (lastOp'.op = "remove_id" /\ \A t \in TagNames : ~InList(lastOp'.id, get_tag(tags, t)))
          => UNCHANGED <<tags, changed_tags>>

\* C20 (as claimed): add_tag of an id already in the tag, remove_tag of an id
\* or tag not there and remove_id of an id in no tag leave every tag's list and
\* the dirty list unchanged.
C20_NoOps ==
    [][/\ C20_RemoveNoOps
       /\ (lastOp'.op = "add_tag" /\ InList(lastOp'.id, get_tag(tags, lastOp'.tag)))
             => UNCHANGED <<tags, changed_tags>>]_vars

\* C20: add_tag of an id already in the tag and in each of its extra tags,
\* remove_tag of an id or tag not there and remove_id of an id in no tag leave
\* every tag's list and the dirty list unchanged and publish nothing.
C20_NoOpsWithExtras ==
    [][/\ C20_RemoveNoOps
       /\ (/\ lastOp'.op = "add_tag"
           /\ \A a \in {lastOp'.tag} \cup
                       (IF lastOp'.tag \in DOMAIN extra_tags
                        THEN ListSet(extra_tags[lastOp'.tag]) ELSE {}) :
                 InList(lastOp'.id, get_tag(tags, a)))
             => (UNCHANGED <<tags, changed_tags>> /\ trace' = <<>>)]_vars

C20_Witness ==
    /\ lastOp.op = "add_tag" /\ lastOp.tag = "comics" /\ lastOp.n = 0
    /\ "comics" \in DOMAIN extra_tags /\ extra_tags["comics"] = <<"xkcd">>
    /\ changed_tags = <<>>
    /\ trace = <<>>

HeldByOther(f, p, sock) ==
    \E key \in DOMAIN p :
        /\ key # <<sock, "auto">>
        /\ \E id \in ListSet(FeedItems(f)) : id \in p[key]

C21_KillStep ==
    lastOp'.op = "kill_socket" =>
        /\ prot'[<<lastOp'.sock, "auto">>] = {}
        /\ \A key \in DOMAIN prot : key # <<lastOp'.sock, "auto">> => prot'[key] = prot[key]
        /\ \A id \in Ids :
              (\E r \in Reasons \ {"auto"} : id \in prot[<<lastOp'.sock, r>>])
                 => protected(prot', id)
        /\ \A f \in dead_feeds : HeldByOther(f, prot, lastOp'.sock) => f \in dead_feeds'

C21_LaterChecks ==
    \A f \in dead_feeds :
        (\E key \in DOMAIN prot' : \E id \in ListSet(FeedItems(f)) : id \in prot'[key])
            => f \in dead_feeds'

PushCount(tr, sock, cmd) ==
    Cardinality({i \in 1..Len(tr) :
        tr[i].k = "write" /\ tr[i].sock = sock /\ tr[i].name = cmd})

HookCount(tr, name) ==
    Cardinality({i \in 1..Len(tr) : tr[i].k = "hook" /\ tr[i].name = name})

HookCountArg(tr, name, arg) ==
    Cardinality({i \in 1..Len(tr) :
        tr[i].k = "hook" /\ tr[i].name = name /\ tr[i].arg = arg})

Registered(w, t, sock) == IF t \in DOMAIN w.tags THEN Count(sock, w.tags[t]) ELSE 0

====
